---- MODULE Spec2Model ----
(***************************************************************************)
(* A model of the bibliography tools of tools/ref_audit.py and             *)
(* tools/bibitem_gen.py.  Text is a sequence of one-character strings;     *)
(* positions are Python's 0-based indices (At(p) is bib_text[p]).          *)
(***************************************************************************)
EXTENDS Integers, Sequences, FiniteSets, TLC

VARIABLES
    bib_text,      \* argument of parse_bibtex_entries
    pc,            \* position in the running function
    i,             \* parse_bibtex_entries: outer loop index
    pos,           \* parse_bibtex_entries: field loop index
    entries,       \* parse_bibtex_entries: the ordered result mapping
    entry_key,
    close_ch,
    fields,
    name,
    value,
    state,
    brace_depth,
    quote,
    steps,         \* parse_bibtex_entries: loop iterations executed so far
    bib_files,     \* merge loop: per source file, whether it exists and its parsed entries
    file_idx,      \* merge loop: index of the next source file
    merged,        \* the merged corpus
    cite_keys,     \* bibitem_gen.main: what extract_cite_keys returned
    keys_in_order, \* bibitem_gen.main
    keys_unique,
    key_idx,       \* bibitem_gen.main: index of the next key of keys_unique
    bibitems,
    missing,
    fmt_key,       \* arguments and result of format_entry
    fmt_f,
    fmt_line,
    dup_idx,       \* ref_audit.main: index of the next entry of merged.items()
    doi_groups,    \* ref_audit.main
    ty_groups,
    dup_doi,
    dup_ty,
    auth_field,    \* arguments and result of format_authors
    auth_max,
    auth_out,
    tex_in,        \* argument and result of strip_tex_braces
    tex_out

parseVars == <<bib_text, i, pos, entries, entry_key, close_ch, fields, name,
               value, state, brace_depth, quote>>

mergeVars == <<bib_files, file_idx, merged>>

bibVars == <<cite_keys, keys_in_order, keys_unique, key_idx, bibitems, missing>>

fmtVars == <<fmt_key, fmt_f, fmt_line>>

dupVars == <<dup_idx, doi_groups, ty_groups, dup_doi, dup_ty>>

authVars == <<auth_field, auth_max, auth_out>>

texVars == <<tex_in, tex_out>>

vars == <<pc, steps, parseVars, mergeVars, bibVars, fmtVars, dupVars, authVars, texVars>>

(* the variables of a function that is not running *)
ParseIdle ==
    /\ bib_text = <<>> /\ i = 0 /\ pos = 0 /\ entries = <<>> /\ entry_key = <<>>
    /\ close_ch = "}" /\ fields = <<>> /\ name = <<"None">> /\ value = <<>>
    /\ state = "name" /\ brace_depth = 0 /\ quote = FALSE /\ steps = 0

MergeIdle == bib_files = <<>> /\ file_idx = 0 /\ merged = <<>>

BibIdle ==
    /\ cite_keys = <<>> /\ keys_in_order = <<>> /\ keys_unique = <<>> /\ key_idx = 0
    /\ bibitems = <<>> /\ missing = <<>>

FmtIdle == fmt_key = <<>> /\ fmt_f = <<>> /\ fmt_line = <<>>

DupIdle ==
    /\ dup_idx = 0 /\ doi_groups = <<>> /\ ty_groups = <<>> /\ dup_doi = <<>>
    /\ dup_ty = <<>>

AuthIdle == auth_field = <<>> /\ auth_max = 0 /\ auth_out = <<>>

TexIdle == tex_in = <<>> /\ tex_out = <<>>

(* what a step of parse_bibtex_entries leaves alone *)
ParseFrame ==
    steps' = steps + 1 /\ UNCHANGED <<mergeVars, bibVars, fmtVars, dupVars, authVars, texVars>>

----------------------------------------------------------------------------
(* Characters and the str methods the code uses.                           *)

LowerSeq == <<"a","b","c","d","e","f","g","h","i","j","k","l","m",
              "n","o","p","q","r","s","t","u","v","w","x","y","z">>

UpperSeq == <<"A","B","C","D","E","F","G","H","I","J","K","L","M",
              "N","O","P","Q","R","S","T","U","V","W","X","Y","Z">>

Digits == {"0","1","2","3","4","5","6","7","8","9"}

Letters == {LowerSeq[x] : x \in DOMAIN LowerSeq} \cup {UpperSeq[x] : x \in DOMAIN UpperSeq}

Whitespace == {" ", "\t", "\n", "\r"}

IsSpace(c) == c \in Whitespace

IsAlpha(c) == c \in Letters

IsAlnum(c) == c \in Letters \cup Digits

LowerChar(c) ==
    IF \E x \in DOMAIN UpperSeq : UpperSeq[x] = c
    THEN LowerSeq[CHOOSE x \in DOMAIN UpperSeq : UpperSeq[x] = c]
    ELSE c

Lower(s) == [x \in DOMAIN s |-> LowerChar(s[x])]

RECURSIVE LStrip(_)
LStrip(s) == IF s # <<>> /\ IsSpace(Head(s)) THEN LStrip(Tail(s)) ELSE s

RECURSIVE RStrip(_)
RStrip(s) ==
    IF s # <<>> /\ IsSpace(s[Len(s)]) THEN RStrip(SubSeq(s, 1, Len(s) - 1)) ELSE s

Strip(s) == RStrip(LStrip(s))

(* s[a:b] for 0 <= a, b <= len(s) *)
Slice(s, a, b) == SubSeq(s, a + 1, b)

----------------------------------------------------------------------------
(* ref_audit.py: _strip_outer_braces and the nested flush_field.           *)

StripOuterBraces(s0) ==
    LET s == Strip(s0)
    IN  IF Len(s) >= 2 /\ s[1] = "{" /\ s[Len(s)] = "}"
        THEN Strip(Slice(s, 1, Len(s) - 1))
        ELSE s

StripOuterQuotes(v) ==
    IF Len(v) >= 2 /\ v[1] = "\"" /\ v[Len(v)] = "\""
    THEN Slice(v, 1, Len(v) - 1)
    ELSE v

(* the string flush_field stores for the buffer "".join(value) *)
FlushValue(buf) == Strip(StripOuterQuotes(StripOuterBraces(Strip(buf))))

(* stands for Python's None *)
None == <<"None">>

Str_k == <<"k">>

Str_j == <<"j">>

SetField(f, nm, v) ==
    [x \in DOMAIN f \cup {nm} |-> IF x = nm THEN v ELSE f[x]]

(* fields after flush_field() *)
FlushedFields == IF name = None THEN fields ELSE SetField(fields, Lower(name), FlushValue(value))

----------------------------------------------------------------------------
(* bibitem_gen.py: strip_tex_braces.  The regular expressions are applied  *)
(* as re.sub applies them: left to right, the leftmost match replaced, the *)
(* scan resumed after it.                                                  *)

StartsWith(s, pre) == Len(s) >= Len(pre) /\ SubSeq(s, 1, Len(pre)) = pre

EndsWith(s, suf) == Len(s) >= Len(suf) /\ SubSeq(s, Len(s) - Len(suf) + 1, Len(s)) = suf

Drop(s, k) == SubSeq(s, k + 1, Len(s))

(* str.replace(old, new) for a non-empty old *)
RECURSIVE ReplaceAll(_, _, _)
ReplaceAll(s, old, new) ==
    IF s = <<>> THEN <<>>
    ELSE IF StartsWith(s, old) THEN new \o ReplaceAll(Drop(s, Len(old)), old, new)
    ELSE <<Head(s)>> \o ReplaceAll(Tail(s), old, new)

(* the first index >= p of s (1-based) whose character is not in S *)
RECURSIVE Past(_, _, _)
Past(s, p, S) == IF p <= Len(s) /\ s[p] \in S THEN Past(s, p + 1, S) ELSE p

(* the first index >= p of s holding c, or 0 *)
RECURSIVE IndexOf(_, _, _)
IndexOf(s, c, p) ==
    IF p > Len(s) THEN 0 ELSE IF s[p] = c THEN p ELSE IndexOf(s, c, p + 1)

Amp == <<"@","@","A","M","P","@","@">>

EscapedAmp == <<"\\", "&">>

(* stands for the grave accent character, which a string literal of this    *)
(* language cannot hold *)
Grave == "grave"

AccentChars == {Grave, "'", "\"", "^", "~", "=", ".", "u", "v", "H", "c"}

(* the accent pattern of line 18 tried at s[p] = "\\": a backslash, one     *)
(* accent character, \s*, an optional "{", \s*, one letter (the group),    *)
(* \s*, an optional "}" *)
AccentMatch(s, p) ==
    LET b == Past(s, p + 2, Whitespace)
        c == IF b <= Len(s) /\ s[b] = "{" THEN b + 1 ELSE b
        d == Past(s, c, Whitespace)
        e == Past(s, d + 1, Whitespace)
        g == IF e <= Len(s) /\ s[e] = "}" THEN e + 1 ELSE e
    IN  IF /\ p + 1 <= Len(s) /\ s[p + 1] \in AccentChars
           /\ d <= Len(s) /\ s[d] \in Letters
        THEN [ok |-> TRUE, letter |-> s[d], next |-> g]
        ELSE [ok |-> FALSE, letter |-> "", next |-> p]

RECURSIVE SubAccents(_, _)
SubAccents(s, p) ==
    IF p > Len(s) THEN <<>>
    ELSE IF s[p] = "\\" /\ AccentMatch(s, p).ok
         THEN <<AccentMatch(s, p).letter>> \o SubAccents(s, AccentMatch(s, p).next)
         ELSE <<s[p]>> \o SubAccents(s, p + 1)

(* \\[a-zA-Z]+\*?(\[[^\]]*\])?(\{[^}]*\})? tried at s[p] = "\\": the index *)
(* after the match, or p when there is none *)
CommandEnd(s, p) ==
    LET a == Past(s, p + 1, Letters)
        b == IF a <= Len(s) /\ s[a] = "*" THEN a + 1 ELSE a
        c == IF b <= Len(s) /\ s[b] = "[" /\ IndexOf(s, "]", b + 1) # 0
             THEN IndexOf(s, "]", b + 1) + 1 ELSE b
        d == IF c <= Len(s) /\ s[c] = "{" /\ IndexOf(s, "}", c + 1) # 0
             THEN IndexOf(s, "}", c + 1) + 1 ELSE c
    IN  IF a > p + 1 THEN d ELSE p

RECURSIVE DropCommands(_, _)
DropCommands(s, p) ==
    IF p > Len(s) THEN <<>>
    ELSE IF s[p] = "\\" /\ CommandEnd(s, p) > p
         THEN DropCommands(s, CommandEnd(s, p))
         ELSE <<s[p]>> \o DropCommands(s, p + 1)

RemoveChars(s, S) == SelectSeq(s, LAMBDA c : c \notin S)

(* ([A-Za-z])'([A-Za-z]) -> \1\2 *)
RECURSIVE DropApostrophes(_, _)
DropApostrophes(s, p) ==
    IF p > Len(s) THEN <<>>
    ELSE IF /\ p + 2 <= Len(s)
            /\ s[p] \in Letters /\ s[p + 1] = "'" /\ s[p + 2] \in Letters
         THEN <<s[p], s[p + 2]>> \o DropApostrophes(s, p + 3)
         ELSE <<s[p]>> \o DropApostrophes(s, p + 1)

(* \s+ -> " " *)
RECURSIVE CollapseSpaces(_, _)
CollapseSpaces(s, p) ==
    IF p > Len(s) THEN <<>>
    ELSE IF s[p] \in Whitespace
         THEN <<" ">> \o CollapseSpaces(s, Past(s, p, Whitespace))
         ELSE <<s[p]>> \o CollapseSpaces(s, p + 1)

strip_tex_braces(s0) ==
    IF s0 = <<>> THEN <<>>
    ELSE LET s1 == ReplaceAll(s0, EscapedAmp, Amp)
             s2 == SubAccents(s1, 1)
             s3 == DropCommands(s2, 1)
             s4 == RemoveChars(s3, {"\\", "{", "}"})
             s5 == DropApostrophes(s4, 1)
             s6 == Strip(CollapseSpaces(s5, 1))
         IN  ReplaceAll(s6, Amp, EscapedAmp)

----------------------------------------------------------------------------
(* bibitem_gen.py: the author formatter.                                   *)

(* s.split(sep) for a non-empty sep: the pieces between the occurrences *)
RECURSIVE SplitOn(_, _, _)
SplitOn(s, sep, cur) ==
    IF s = <<>> THEN <<cur>>
    ELSE IF StartsWith(s, sep) THEN <<cur>> \o SplitOn(Drop(s, Len(sep)), sep, <<>>)
    ELSE SplitOn(Tail(s), sep, Append(cur, Head(s)))

(* s.split(): the maximal runs of non-whitespace *)
RECURSIVE Tokens(_, _, _)
Tokens(s, p, S) ==
    IF Past(s, p, S) > Len(s) THEN <<>>
    ELSE LET a == Past(s, p, S)
             b == Past(s, a, {s[x] : x \in DOMAIN s} \ S)
         IN  <<SubSeq(s, a, b - 1)>> \o Tokens(s, b, S)

(* sep.join(parts) *)
RECURSIVE Join(_, _)
Join(parts, sep) ==
    IF parts = <<>> THEN <<>>
    ELSE IF Len(parts) = 1 THEN parts[1]
    ELSE parts[1] \o sep \o Join(Tail(parts), sep)

NonEmpty(parts) == SelectSeq(parts, LAMBDA x : x # <<>>)

split_authors(author_field) ==
    IF author_field = <<>> THEN <<>>
    ELSE LET flat == ReplaceAll(author_field, <<"\n">>, <<" ">>)
             parts == SplitOn(flat, <<" ","a","n","d"," ">>, <<>>)
         IN  NonEmpty([x \in DOMAIN parts |-> Strip(parts[x])])

UpperChar(c) ==
    IF \E x \in DOMAIN LowerSeq : LowerSeq[x] = c
    THEN UpperSeq[CHOOSE x \in DOMAIN LowerSeq : LowerSeq[x] = c]
    ELSE c

(* re.split(r"[\s\-]+", given), empty tokens dropped *)
Initials(given) ==
    LET toks == Tokens(given, 1, Whitespace \cup {"-"})
        alpha == SelectSeq(toks, LAMBDA t : IsAlpha(t[1]))
    IN  [x \in DOMAIN alpha |-> UpperChar(alpha[x][1])]

(* lines 56-59 *)
WithInitials(last, given) ==
    IF Initials(given) # <<>> THEN last \o <<" ">> \o Initials(given) ELSE last

(* lines 48-55, for the name after strip_tex_braces *)
SurnameAndGiven(nm) ==
    IF IndexOf(nm, ",", 1) # 0
    THEN WithInitials(Strip(SubSeq(nm, 1, IndexOf(nm, ",", 1) - 1)),
                      Strip(Drop(nm, IndexOf(nm, ",", 1))))
    ELSE IF Tokens(nm, 1, Whitespace) = <<>> THEN <<>>
    ELSE WithInitials(Tokens(nm, 1, Whitespace)[Len(Tokens(nm, 1, Whitespace))],
                      Join(SubSeq(Tokens(nm, 1, Whitespace), 1,
                                  Len(Tokens(nm, 1, Whitespace)) - 1), <<" ">>))

format_author(name0) == SurnameAndGiven(strip_tex_braces(name0))

DefaultMaxAuthors == 3

EtAl == <<",", " ", "e", "t", " ", "a", "l", ".">>

(* a variant of format_authors that abbreviates a list of exactly           *)
(* max_authors authors *)
FormatAuthorsCapsAtMax(author_field, max_authors) ==
    LET raw == split_authors(author_field)
        authors == NonEmpty([x \in DOMAIN raw |-> format_author(raw[x])])
    IN  IF authors = <<>> THEN <<>>
        ELSE IF Len(authors) >= max_authors
        THEN Join(SubSeq(authors, 1, max_authors), <<",", " ">>) \o EtAl
        ELSE Join(authors, <<",", " ">>)

(* lines 62-69 *)
format_authors(author_field, max_authors) ==
    LET raw == split_authors(author_field)
        authors == NonEmpty([x \in DOMAIN raw |-> format_author(raw[x])])
    IN  IF authors = <<>> THEN <<>>
        ELSE IF Len(authors) > max_authors
        THEN Join(SubSeq(authors, 1, max_authors), <<",", " ">>) \o EtAl
        ELSE Join(authors, <<",", " ">>)

----------------------------------------------------------------------------
(* bibitem_gen.py: ref_tag, pick_field and format_entry.  An entry is a    *)
(* function from field names to values.                                    *)

TypeName == <<"_","_","t","y","p","e">>

Str_article == <<"a","r","t","i","c","l","e">>

Str_inproceedings == <<"i","n","p","r","o","c","e","e","d","i","n","g","s">>

Str_conference == <<"c","o","n","f","e","r","e","n","c","e">>

Str_proceedings == <<"p","r","o","c","e","e","d","i","n","g","s">>

Str_techreport == <<"t","e","c","h","r","e","p","o","r","t">>

Str_book == <<"b","o","o","k">>

Str_phdthesis == <<"p","h","d","t","h","e","s","i","s">>

Str_mastersthesis == <<"m","a","s","t","e","r","s","t","h","e","s","i","s">>

Str_misc == <<"m","i","s","c">>

Str_journal == <<"j","o","u","r","n","a","l">>

Str_booktitle == <<"b","o","o","k","t","i","t","l","e">>

Str_author == <<"a","u","t","h","o","r">>

Str_title == <<"t","i","t","l","e">>

Str_year == <<"y","e","a","r">>

Str_volume == <<"v","o","l","u","m","e">>

Str_number == <<"n","u","m","b","e","r">>

Str_pages == <<"p","a","g","e","s">>

Str_institution == <<"i","n","s","t","i","t","u","t","i","o","n">>

Str_howpublished == <<"h","o","w","p","u","b","l","i","s","h","e","d">>

Str_publisher == <<"p","u","b","l","i","s","h","e","r">>

Str_note == <<"n","o","t","e">>

TagJ == <<"[","J","]">>

TagC == <<"[","C","]">>

TagR == <<"[","R","]">>

TagM == <<"[","M","]">>

TagD == <<"[","D","]">>

TagZ == <<"[","Z","]">>

ref_tag(entry_type) ==
    LET t == Lower(entry_type)
    IN  IF t \in {Str_article} THEN TagJ
        ELSE IF t \in {Str_inproceedings, Str_conference, Str_proceedings} THEN TagC
        ELSE IF t \in {Str_techreport} THEN TagR
        ELSE IF t \in {Str_book} THEN TagM
        ELSE IF t \in {Str_phdthesis, Str_mastersthesis} THEN TagD
        ELSE TagZ

(* f.get(nm, "") *)
Get(f, nm) == IF nm \in DOMAIN f THEN f[nm] ELSE <<>>

RECURSIVE pick_field(_, _)
pick_field(f, names) ==
    IF names = <<>> THEN <<>>
    ELSE IF Strip(Get(f, Head(names))) # <<>> THEN Strip(Get(f, Head(names)))
    ELSE pick_field(f, Tail(names))

(* et = f.get("__type", "misc") *)
DeclaredType(f) == IF TypeName \in DOMAIN f THEN f[TypeName] ELSE Str_misc

(* a variant of EntryTag that consults the declared type first *)
EntryTagTypeFirst(f) ==
    IF ref_tag(DeclaredType(f)) # TagZ THEN ref_tag(DeclaredType(f))
    ELSE IF pick_field(f, <<Str_journal>>) # <<>> THEN TagJ
    ELSE IF pick_field(f, <<Str_booktitle>>) # <<>> THEN TagC
    ELSE TagZ

(* lines 98-106 *)
EntryTag(f) ==
    IF pick_field(f, <<Str_journal>>) # <<>> THEN TagJ
    ELSE IF pick_field(f, <<Str_booktitle>>) # <<>> THEN TagC
    ELSE ref_tag(DeclaredType(f))

(* The local variables of format_entry are bound as {e : v \in {x}}: x is  *)
(* computed once and e reads its value; Only takes the one element.        *)
Only(S) == CHOOSE r \in S : TRUE

(* s.rstrip(".") *)
RECURSIVE RStripDots(_)
RStripDots(s) ==
    IF s # <<>> /\ s[Len(s)] = "." THEN RStripDots(SubSeq(s, 1, Len(s) - 1)) ELSE s

(* lines 108-109 *)
EntryAuthors(f) ==
    Only({ RStripDots(authors)
           : authors \in {format_authors(pick_field(f, <<Str_author>>), DefaultMaxAuthors)} })

(* lines 109-113 *)
EntryTitle(key, f) ==
    Only({ IF title = <<>> THEN key ELSE title
           : title \in {strip_tex_braces(pick_field(f, <<Str_title>>))} })

EntryPages(f) == ReplaceAll(pick_field(f, <<Str_pages>>), <<"-","-">>, <<"-">>)

(* lines 116-141 *)
JournalVenue(f) ==
    LET journal == strip_tex_braces(pick_field(f, <<Str_journal>>))
        year == pick_field(f, <<Str_year>>)
        vol == pick_field(f, <<Str_volume>>)
        num == pick_field(f, <<Str_number>>)
        pages == EntryPages(f)
        vn == IF vol # <<>> /\ num # <<>> THEN vol \o <<"(">> \o num \o <<")">>
              ELSE IF vol # <<>> THEN vol
              ELSE IF num # <<>> THEN <<"(">> \o num \o <<")">>
              ELSE <<>>
        tail == IF vn # <<>> /\ pages # <<>> THEN vn \o <<":", " ">> \o pages
                ELSE IF vn # <<>> THEN vn
                ELSE pages
    IN  Join(NonEmpty(<<journal, year, tail>>), <<",", " ">>)

(* lines 147-156 *)
ConferenceVenue(f) ==
    LET booktitle == strip_tex_braces(pick_field(f, <<Str_booktitle>>))
        year == pick_field(f, <<Str_year>>)
        venue_parts == NonEmpty(<<booktitle, year, EntryPages(f)>>)
    IN  IF venue_parts # <<>> THEN Join(venue_parts, <<":", " ">>) ELSE year

(* lines 162-164 *)
ReportVenue(f) ==
    LET inst == strip_tex_braces(pick_field(f, <<Str_institution>>))
    IN  Join(NonEmpty(<<inst, pick_field(f, <<Str_year>>), pick_field(f, <<Str_number>>)>>),
             <<",", " ">>)

(* lines 170-171 *)
FallbackVenue(f) ==
    LET how == strip_tex_braces(pick_field(f, <<Str_howpublished, Str_publisher, Str_note>>))
    IN  Join(NonEmpty(<<how, pick_field(f, <<Str_year>>)>>), <<",", " ">>)

(* "journal", "conference", "report" or "fallback": the branch of lines     *)
(* 115, 146, 161 and 169 that builds the line *)
Layout(f) ==
    LET et == Lower(DeclaredType(f))
    IN  IF pick_field(f, <<Str_journal>>) # <<>> \/ et = Str_article THEN "journal"
        ELSE IF \/ pick_field(f, <<Str_booktitle>>) # <<>>
                \/ et \in {Str_inproceedings, Str_conference, Str_proceedings}
        THEN "conference"
        ELSE IF et = Str_techreport THEN "report"
        ELSE "fallback"

(* the line up to and including the tag: "{authors}. {title}{tag}" or        *)
(* "{title}{tag}" *)
LineHead(key, f) ==
    Only({ (IF authors # <<>> THEN authors \o <<".", " ">> ELSE <<>>)
               \o EntryTitle(key, f) \o EntryTag(f)
           : authors \in {EntryAuthors(f)} })

(* the line for each layout, given the head and the venue *)
Assemble(layout, head, venue) ==
    CASE layout = "journal" -> head \o <<".", " ">> \o venue \o <<".">>
      [] layout = "conference" -> head \o <<"/", "/">> \o venue \o <<".">>
      [] layout = "report" -> head \o <<".", " ">> \o venue \o <<".">>
      [] layout = "fallback" ->
            IF venue # <<>> THEN head \o <<".", " ">> \o venue \o <<".">>
            ELSE head \o <<".">>

Venue(layout, f) ==
    CASE layout = "journal" -> JournalVenue(f)
      [] layout = "conference" -> ConferenceVenue(f)
      [] layout = "report" -> ReportVenue(f)
      [] layout = "fallback" -> FallbackVenue(f)

(* lines 95-174 *)
format_entry(key, f) ==
    Only({ Only({ Assemble(layout, head, venue)
                  : head \in {LineHead(key, f)}, venue \in {Venue(layout, f)} })
           : layout \in {Layout(f)} })

----------------------------------------------------------------------------
(* parse_bibtex_entries: the entry header, lines 62-94.                    *)

n == Len(bib_text)

At(p) == bib_text[p + 1]

(* str.find(c, from): the first index >= from holding c, or -1 *)
RECURSIVE Find(_, _)
Find(c, from) ==
    IF from >= n THEN -1
    ELSE IF At(from) = c THEN from ELSE Find(c, from + 1)

RECURSIVE SkipIn(_, _)
SkipIn(p, S) == IF p < n /\ At(p) \in S THEN SkipIn(p + 1, S) ELSE p

RECURSIVE SkipNotIn(_, _)
SkipNotIn(p, S) == IF p < n /\ At(p) \notin S THEN SkipNotIn(p + 1, S) ELSE p

AtSign == Find("@", i)

TypeStart == SkipIn(AtSign + 1, Whitespace)

TypeEnd == SkipIn(TypeStart, Letters \cup {"-"})

EntryType == Lower(Strip(Slice(bib_text, TypeStart, TypeEnd)))

OpenPos == SkipNotIn(TypeEnd, {"{", "("})

CloseOf(open_ch) == IF open_ch = "{" THEN "}" ELSE ")"

KeyStart == SkipIn(OpenPos + 1, Whitespace)

KeyEnd == SkipNotIn(KeyStart, {",", "\n", "\r"})

EntryKey == Strip(Slice(bib_text, KeyStart, KeyEnd))

CommaAfterKey == Find(",", KeyEnd)

(* while i < n fails, or no "@" is left: lines 62-65 *)
ScanFinish ==
    /\ pc = "scan"
    /\ ParseFrame
    /\ (i >= n \/ AtSign = -1)
    /\ pc' = "done"
    /\ UNCHANGED parseVars

(* a variant of ScanAbort that gives up the entries recorded so far *)
ScanAbortDropsEntries ==
    /\ pc = "scan"
    /\ ParseFrame
    /\ i < n /\ AtSign # -1
    /\ OpenPos >= n
    /\ pc' = "done"
    /\ entries' = <<>>
    /\ UNCHANGED <<bib_text, i, pos, entry_key, close_ch, fields, name, value,
                   state, brace_depth, quote>>

(* no opening delimiter before the end of the input: lines 75-78 *)
ScanAbort ==
    /\ pc = "scan"
    /\ ParseFrame
    /\ i < n /\ AtSign # -1
    /\ OpenPos >= n
    /\ pc' = "done"
    /\ UNCHANGED parseVars

(* no comma after the key: lines 90-93 *)
ScanSkip ==
    /\ pc = "scan"
    /\ ParseFrame
    /\ i < n /\ AtSign # -1
    /\ OpenPos < n
    /\ CommaAfterKey = -1
    /\ i' = KeyEnd
    /\ UNCHANGED <<pc, bib_text, pos, entries, entry_key, close_ch, fields,
                   name, value, state, brace_depth, quote>>

(* the entry has a key and a comma: lines 79-101 *)
ScanBegin ==
    /\ pc = "scan"
    /\ ParseFrame
    /\ i < n /\ AtSign # -1
    /\ OpenPos < n
    /\ CommaAfterKey # -1
    /\ close_ch' = CloseOf(At(OpenPos))
    /\ entry_key' = EntryKey
    /\ pos' = CommaAfterKey + 1
    /\ fields' = (TypeName :> EntryType)
    /\ name' = None
    /\ value' = <<>>
    /\ state' = "name"
    /\ brace_depth' = 0
    /\ quote' = FALSE
    /\ pc' = "fields"
    /\ UNCHANGED <<bib_text, i, entries>>

----------------------------------------------------------------------------
(* parse_bibtex_entries: the field loop, lines 115-166.                    *)

NameEnd == SkipIn(pos, Letters \cup Digits \cup {"-", "_"})

(* "flush_field(); break" *)
FlushAndBreak ==
    /\ fields' = FlushedFields
    /\ name' = IF name = None THEN name ELSE None
    /\ value' = IF name = None THEN value ELSE <<>>
    /\ pc' = "record"
    /\ UNCHANGED <<bib_text, i, pos, entries, entry_key, close_ch, state, quote>>

AppendChar ==
    /\ value' = Append(value, At(pos))
    /\ pos' = pos + 1
    /\ UNCHANGED <<pc, bib_text, i, entries, entry_key, close_ch, fields, name, state>>

(* state == "name": lines 117-131 *)
NameStep ==
    /\ pc = "fields" /\ pos < n /\ state = "name"
    /\ ParseFrame
    /\ IF At(pos) \in {" ", "\t", "\r", "\n", ","}
       THEN /\ pos' = pos + 1
            /\ UNCHANGED <<pc, bib_text, i, entries, entry_key, close_ch,
                           fields, name, value, state, brace_depth, quote>>
       ELSE IF At(pos) = close_ch /\ brace_depth = 0 /\ ~quote
       THEN FlushAndBreak /\ UNCHANGED brace_depth
       ELSE /\ pos' = NameEnd
            /\ name' = Strip(Slice(bib_text, pos, NameEnd))
            /\ state' = "before_value"
            /\ UNCHANGED <<pc, bib_text, i, entries, entry_key, close_ch,
                           fields, value, brace_depth, quote>>

(* a variant of BeforeValueStep that never leaves the state *)
BeforeValueStepStays ==
    /\ pc = "fields" /\ pos < n /\ state = "before_value"
    /\ ParseFrame
    /\ IF IsSpace(At(pos)) \/ At(pos) = "="
       THEN pos' = pos + 1
       ELSE UNCHANGED pos
    /\ UNCHANGED <<pc, bib_text, i, entries, entry_key, close_ch, fields,
                   name, value, state, brace_depth, quote>>

(* state == "before_value": lines 132-138 *)
BeforeValueStep ==
    /\ pc = "fields" /\ pos < n /\ state = "before_value"
    /\ ParseFrame
    /\ IF IsSpace(At(pos)) \/ At(pos) = "="
       THEN /\ pos' = pos + 1
            /\ UNCHANGED state
       ELSE /\ state' = "value"
            /\ UNCHANGED pos
    /\ UNCHANGED <<pc, bib_text, i, entries, entry_key, close_ch, fields,
                   name, value, brace_depth, quote>>

(* line 140: a double quote toggles the flag *)
TogglesQuote(ch, depth) == ch = "\"" /\ depth = 0

(* lines 153, 161: the character closes the entry *)
EndsEntry(ch, closer, depth, q) == ~q /\ ch = closer /\ depth = 0

(* a variant of EndsField that forgets the depth counter *)
EndsFieldAtAnyDepth(ch, depth, q) == ~q /\ ch = ","

(* line 156: the character ends the field *)
EndsField(ch, depth, q) == ~q /\ ch = "," /\ depth = 0

(* a variant of DepthAfter without the max(0, ...) of line 150 *)
DepthAfterUnclamped(ch, depth, q) ==
    IF q THEN depth
    ELSE IF ch = "{" THEN depth + 1
    ELSE IF ch = "}" THEN depth - 1
    ELSE depth

(* lines 146-150: the depth counter after the character *)
DepthAfter(ch, depth, q) ==
    IF q THEN depth
    ELSE IF ch = "{" THEN depth + 1
    ELSE IF ch = "}" THEN (IF depth - 1 > 0 THEN depth - 1 ELSE 0)
    ELSE depth

(* state == "value": lines 139-166 *)
ValueStep ==
    /\ pc = "fields" /\ pos < n /\ state = "value"
    /\ ParseFrame
    /\ LET ch == At(pos)
       IN  IF TogglesQuote(ch, brace_depth)
           THEN /\ quote' = ~quote
                /\ AppendChar
                /\ UNCHANGED brace_depth
           ELSE IF EndsEntry(ch, close_ch, brace_depth, quote)
           THEN /\ FlushAndBreak
                /\ UNCHANGED brace_depth
           ELSE IF EndsField(ch, brace_depth, quote)
           THEN /\ fields' = FlushedFields
                /\ name' = None
                /\ value' = <<>>
                /\ state' = "name"
                /\ pos' = pos + 1
                /\ UNCHANGED <<pc, bib_text, i, entries, entry_key, close_ch,
                               brace_depth, quote>>
           ELSE /\ brace_depth' = DepthAfter(ch, brace_depth, quote)
                /\ AppendChar
                /\ UNCHANGED quote

(* a variant of FieldsExhausted that stores the field being read when the  *)
(* input ends *)
FieldsExhaustedFlushes ==
    /\ pc = "fields" /\ pos >= n
    /\ ParseFrame
    /\ fields' = FlushedFields
    /\ pc' = "record"
    /\ UNCHANGED <<bib_text, i, pos, entries, entry_key, close_ch, name, value, state,
                   brace_depth, quote>>

(* while pos < n fails: the input ended inside the entry *)
FieldsExhausted ==
    /\ pc = "fields" /\ pos >= n
    /\ ParseFrame
    /\ pc' = "record"
    /\ UNCHANGED parseVars

(* a variant of PutEntry in which the first entry of a key wins *)
PutEntryKeepsFirst(es, k, f) ==
    IF \E x \in DOMAIN es : es[x].key = k THEN es
    ELSE Append(es, [key |-> k, fields |-> f])

(* entries[entry_key] = fields keeps the position of a key already present *)
PutEntry(es, k, f) ==
    IF \E x \in DOMAIN es : es[x].key = k
    THEN [x \in DOMAIN es |-> IF es[x].key = k THEN [key |-> k, fields |-> f] ELSE es[x]]
    ELSE Append(es, [key |-> k, fields |-> f])

(* lines 168-170 *)
RecordEntry ==
    /\ pc = "record"
    /\ ParseFrame
    /\ entries' = IF entry_key # <<>> THEN PutEntry(entries, entry_key, fields) ELSE entries
    /\ i' = pos + 1
    /\ pc' = "scan"
    /\ UNCHANGED <<bib_text, pos, entry_key, close_ch, fields, name, value,
                   state, brace_depth, quote>>

----------------------------------------------------------------------------
(* The texts parse_bibtex_entries is run on.                               *)

MaxBody == 4

BodyChars == {"{", "}", ")", ",", "\"", "A"}

Bodies == UNION {[1..m -> BodyChars] : m \in 0..MaxBody}

Heads == { <<"@","a","{","k",",","t","=">>,
           <<"@","a","(","k",",","t","=">>,
           <<"@","a","{","k">> }

Tails == { <<>>,
           <<"}">>,
           <<")">>,
           <<"}","@","b">>,
           <<"}","@","b","{","k",",","u","=","A","}">> }

(* @a{k,t=A}@b{j,u=A}@c{k,v=A}: the key k occurs twice *)
RepeatedKeyText ==
    <<"@","a","{","k",",","t","=","A","}","@","b","{","j",",","u","=","A","}",
      "@","c","{","k",",","v","=","A","}">>

(* @a{k,t=A,u="B}@b{j,v=C}: the double quote is never closed *)
UnclosedQuoteText ==
    <<"@","a","{","k",",","t","=","A",",","u","=","\"","B","}","@","b","{","j",",",
      "v","=","C","}">>

FixedTexts == { <<>>,
                RepeatedKeyText,
                UnclosedQuoteText,
                <<"k",",","t">>,
                <<"@","a">>,
                <<"@","a","{","k","}","@","b","{","j","}">>,
                <<"@","a","{","k","}","\n","@","b","{","j",",","u","=","A","}">>,
                <<"@"," ","A","-","b"," ","{"," ","k"," ",",","\n","T"," ","="," ","{","A","}"," ","}">>,
                <<"@","a","{",",","t","=","A","}">>,
                <<"@","a","{","k",",","t","=","A","}","\n","@","b","(","j",",","u","=","{","A","}",",",")">> }

Texts == {h \o b \o t : h \in Heads, b \in Bodies, t \in Tails} \cup FixedTexts

InitParse ==
    /\ bib_text \in Texts
    /\ pc = "scan"
    /\ i = 0
    /\ pos = 0
    /\ entries = <<>>
    /\ entry_key = <<>>
    /\ close_ch = "}"
    /\ fields = (TypeName :> <<>>)
    /\ name = None
    /\ value = <<>>
    /\ state = "name"
    /\ brace_depth = 0
    /\ quote = FALSE
    /\ steps = 0
    /\ MergeIdle /\ BibIdle /\ FmtIdle
    /\ DupIdle /\ AuthIdle /\ TexIdle

NextParse ==
    \/ ScanFinish
    \/ ScanAbort
    \/ ScanSkip
    \/ ScanBegin
    \/ NameStep
    \/ BeforeValueStep
    \/ ValueStep
    \/ FieldsExhausted
    \/ RecordEntry

SpecParse == InitParse /\ [][NextParse]_vars

----------------------------------------------------------------------------
(* format_entry run on one entry.                                          *)

(* lines 95-174 *)
FormatEntry ==
    /\ pc = "format"
    /\ fmt_line' = format_entry(fmt_key, fmt_f)
    /\ pc' = "formatted"
    /\ UNCHANGED <<steps, parseVars, dupVars, authVars, texVars,
                   mergeVars, bibVars, fmt_key, fmt_f>>

Str_k1 == <<"k", "1">>

DeclaredTypes ==
    {Str_article, Str_inproceedings, Str_conference, Str_proceedings, Str_techreport,
     Str_book, Str_phdthesis, Str_mastersthesis, Str_misc, <<"a">>}

(* the value of each field other than the type and the journal, when the    *)
(* entry has the field *)
SampleValue ==
    (Str_booktitle :> <<"B">>) @@
    (Str_author :> <<"D","o","e",","," ","J","a","n","e">>) @@
    (Str_title :> <<"{","T","}">>) @@
    (Str_year :> <<"1">>) @@
    (Str_volume :> <<"2">>) @@
    (Str_number :> <<"3">>) @@
    (Str_pages :> <<"4","-","-","5">>) @@
    (Str_institution :> <<"I">>) @@
    (Str_howpublished :> <<"H">>) @@
    (Str_publisher :> <<"P">>) @@
    (Str_note :> <<"N">>)

JournalValues == {<<>>, <<"J">>}

(* the entry with the fields D, the declared type t and the journal j, None *)
(* standing for a field the entry does not have *)
MakeEntry(D, t, j) ==
    [x \in D \cup (IF t # None THEN {TypeName} ELSE {})
             \cup (IF j # None THEN {Str_journal} ELSE {})
        |-> IF x = TypeName THEN t ELSE IF x = Str_journal THEN j ELSE SampleValue[x]]

InitFormat ==
    /\ pc = "format"
    /\ fmt_key = Str_k1
    /\ \E D \in SUBSET DOMAIN SampleValue, t \in DeclaredTypes \cup {None},
          j \in JournalValues \cup {None} :
            fmt_f = MakeEntry(D, t, j)
    /\ fmt_line = <<>>
    /\ ParseIdle /\ MergeIdle /\ BibIdle
    /\ DupIdle /\ AuthIdle /\ TexIdle

NextFormat == FormatEntry

SpecFormat == InitFormat /\ [][NextFormat]_vars

----------------------------------------------------------------------------
(* The merge loop of load_merged_bib (bibitem_gen.py, lines 185-192); the  *)
(* loop of ref_audit.main (lines 211-224) is the same.  A mapping with     *)
(* insertion order is a sequence of [key, fields] records with distinct    *)
(* keys.                                                                   *)

NumBibFiles == 4

HasKey(m, k) == \E x \in DOMAIN m : m[x].key = k

Lookup(m, k) == m[CHOOSE x \in DOMAIN m : m[x].key = k].fields

(* a variant of SetDefault in which the later source wins *)
SetDefaultOverwrites(m, k, v) == PutEntry(m, k, v)

(* merged.setdefault(k, v) *)
SetDefault(m, k, v) == IF HasKey(m, k) THEN m ELSE Append(m, [key |-> k, fields |-> v])

RECURSIVE MergeInto(_, _)
MergeInto(m, es) ==
    IF es = <<>> THEN m
    ELSE MergeInto(SetDefault(m, Head(es).key, Head(es).fields), Tail(es))

(* "if not p.exists(): continue" *)
MergeSkipMissing ==
    /\ pc = "merge"
    /\ file_idx < NumBibFiles
    /\ ~bib_files[file_idx + 1].exists
    /\ file_idx' = file_idx + 1
    /\ UNCHANGED <<pc, steps, parseVars, dupVars, authVars, texVars,
                   bib_files, merged, bibVars, fmtVars>>

MergeFile ==
    /\ pc = "merge"
    /\ file_idx < NumBibFiles
    /\ bib_files[file_idx + 1].exists
    /\ merged' = MergeInto(merged, bib_files[file_idx + 1].entries)
    /\ file_idx' = file_idx + 1
    /\ UNCHANGED <<pc, steps, parseVars, dupVars, authVars, texVars,
                   bib_files, bibVars, fmtVars>>

MergeReturn ==
    /\ pc = "merge"
    /\ file_idx = NumBibFiles
    /\ pc' = "merged"
    /\ UNCHANGED <<steps, parseVars, dupVars, authVars, texVars,
                   mergeVars, bibVars, fmtVars>>

(* what parse_bibtex_entries can return for a source file: entries with   *)
(* distinct keys, in any order *)
SourceKeys == {Str_k, Str_j}

SourceFields ==
    { (TypeName :> <<"a">>) @@ (<<"t">> :> <<"A">>),
      (TypeName :> <<"b">>) @@ (<<"u">> :> <<"A">>) }

DistinctKeys(m) == \A x, y \in DOMAIN m : x # y => m[x].key # m[y].key

SourceEntries ==
    { m \in UNION { [1..len -> [key : SourceKeys, fields : SourceFields]]
                    : len \in 0..Cardinality(SourceKeys) } : DistinctKeys(m) }

SourceFiles ==
    { [exists |-> FALSE, entries |-> <<>>] }
        \cup { [exists |-> TRUE, entries |-> m] : m \in SourceEntries }

InitMerge ==
    /\ pc = "merge"
    /\ bib_files \in [1..NumBibFiles -> SourceFiles]
    /\ file_idx = 0
    /\ merged = <<>>
    /\ ParseIdle /\ BibIdle /\ FmtIdle
    /\ DupIdle /\ AuthIdle /\ TexIdle

NextMerge ==
    \/ MergeSkipMissing
    \/ MergeFile
    \/ MergeReturn

SpecMerge == InitMerge /\ [][NextMerge]_vars

----------------------------------------------------------------------------
(* bibitem_gen.main, lines 208-248.                                        *)

Str_Mikko96 == <<"M","i","k","k","o","9","6">>

Str_Shen2024BoneCement == <<"S","h","e","n","2","0","2","4","B","o","n","e","C","e","m","e","n","t">>

Str_ShenUnifiedMCT == <<"S","h","e","n","U","n","i","f","i","e","d","M","C","T">>

Str_Wang2024 == <<"W","a","n","g","2","0","2","4">>

Str_Zhang2024MultiphaseVNN == <<"Z","h","a","n","g","2","0","2","4","M","u","l","t","i","p","h","a","s","e","V","N","N">>

Str_carreau1972rheological == <<"c","a","r","r","e","a","u","1","9","7","2","r","h","e","o","l","o","g","i","c","a","l">>

Str_cross65 == <<"c","r","o","s","s","6","5">>

Str_gingold1977smoothed == <<"g","i","n","g","o","l","d","1","9","7","7","s","m","o","o","t","h","e","d">>

Str_monaghan2005smoothed == <<"m","o","n","a","g","h","a","n","2","0","0","5","s","m","o","o","t","h","e","d">>

Str_shen2024visual == <<"s","h","e","n","2","0","2","4","v","i","s","u","a","l">>

Str_wang2024physics == <<"w","a","n","g","2","0","2","4","p","h","y","s","i","c","s">>

Str_zhang2024multiphase == <<"z","h","a","n","g","2","0","2","4","m","u","l","t","i","p","h","a","s","e">>

(* the alias table of apply_canonical, lines 197-201 *)
Mapping ==
    (Str_Wang2024 :> Str_wang2024physics) @@
    (Str_Zhang2024MultiphaseVNN :> Str_zhang2024multiphase) @@
    (Str_Shen2024BoneCement :> Str_shen2024visual)

Line_ShenUnifiedMCT ==
    <<"S","h","e","n"," ","L",","," ","Z","h","a","n","g"," ","Y",","," ",
      "F","r","e","y"," ","S",","," ","e","t"," ","a","l","."," ","A"," ",
      "u","n","i","f","i","e","d"," ","v","i","s","c","o","e","l","a","s",
      "t","i","c"," ","s","o","l","v","e","r"," ","f","o","r"," ","m","u",
      "l","t","i","p","h","a","s","e"," ","f","l","u","i","d"," ","s","i",
      "m","u","l","a","t","i","o","n"," ","b","a","s","e","d"," ","o","n",
      " ","a"," ","m","i","x","t","u","r","e"," ","m","o","d","e","l","[",
      "Z","]","."," ","U","n","p","u","b","l","i","s","h","e","d"," ","m",
      "a","n","u","s","c","r","i","p","t",".">>

Line_cross65 ==
    <<"C","r","o","s","s"," ","M"," ","M","."," ","R","h","e","o","l","o",
      "g","y"," ","o","f"," ","n","o","n","-","N","e","w","t","o","n","i",
      "a","n"," ","f","l","u","i","d","s",":"," ","a"," ","n","e","w"," ",
      "f","l","o","w"," ","e","q","u","a","t","i","o","n"," ","f","o","r",
      " ","p","s","e","u","d","o","p","l","a","s","t","i","c"," ","s","y",
      "s","t","e","m","s","[","J","]","."," ","J","o","u","r","n","a","l",
      " ","o","f"," ","C","o","l","l","o","i","d"," ","S","c","i","e","n",
      "c","e",","," ","1","9","6","5",".">>

Line_carreau1972rheological ==
    <<"C","a","r","r","e","a","u"," ","P"," ","J","."," ","R","h","e","o",
      "l","o","g","i","c","a","l"," ","e","q","u","a","t","i","o","n","s",
      " ","f","r","o","m"," ","m","o","l","e","c","u","l","a","r"," ","n",
      "e","t","w","o","r","k"," ","t","h","e","o","r","i","e","s","[","J",
      "]","."," ","T","r","a","n","s","a","c","t","i","o","n","s"," ","o",
      "f"," ","t","h","e"," ","S","o","c","i","e","t","y"," ","o","f"," ",
      "R","h","e","o","l","o","g","y",","," ","1","9","7","2",","," ","1",
      "6","(","1",")",":"," ","9","9","-","1","2","7",".">>

Line_gingold1977smoothed ==
    <<"G","i","n","g","o","l","d"," ","R"," ","A",","," ","M","o","n","a",
      "g","h","a","n"," ","J"," ","J","."," ","S","m","o","o","t","h","e",
      "d"," ","p","a","r","t","i","c","l","e"," ","h","y","d","r","o","d",
      "y","n","a","m","i","c","s",":"," ","t","h","e","o","r","y"," ","a",
      "n","d"," ","a","p","p","l","i","c","a","t","i","o","n"," ","t","o",
      " ","n","o","n","-","s","p","h","e","r","i","c","a","l"," ","s","t",
      "a","r","s","[","J","]","."," ","M","o","n","t","h","l","y"," ","N",
      "o","t","i","c","e","s"," ","o","f"," ","t","h","e"," ","R","o","y",
      "a","l"," ","A","s","t","r","o","n","o","m","i","c","a","l"," ","S",
      "o","c","i","e","t","y",","," ","1","9","7","7",","," ","1","8","1",
      "(","3",")",":"," ","3","7","5","-","3","8","9",".">>

Line_monaghan2005smoothed ==
    <<"M","o","n","a","g","h","a","n"," ","J"," ","J","."," ","S","m","o",
      "o","t","h","e","d"," ","p","a","r","t","i","c","l","e"," ","h","y",
      "d","r","o","d","y","n","a","m","i","c","s","[","J","]","."," ","R",
      "e","p","o","r","t","s"," ","o","n"," ","P","r","o","g","r","e","s",
      "s"," ","i","n"," ","P","h","y","s","i","c","s",","," ","2","0","0",
      "5",","," ","6","8","(","8",")",":"," ","1","7","0","3",".">>

Line_Mikko96 ==
    <<"M","a","n","n","i","n","e","n"," ","M",","," ","T","a","i","v","a",
      "s","s","a","l","o"," ","V",","," ","K","a","l","l","i","o"," ","S",
      "."," ","O","n"," ","t","h","e"," ","m","i","x","t","u","r","e"," ",
      "m","o","d","e","l"," ","f","o","r"," ","m","u","l","t","i","p","h",
      "a","s","e"," ","f","l","o","w","[","R","]","."," ","V","T","T"," ",
      "P","u","b","l","i","c","a","t","i","o","n","s",","," ","1","9","9",
      "6","(","2","8","8",")",":"," ","3","-","6","7",".">>

Line_wang2024physics ==
    <<"W","a","n","g"," ","X",","," ","X","u"," ","Y",","," ","L","i","u",
      " ","S",","," ","e","t"," ","a","l","."," ","P","h","y","s","i","c",
      "s","-","b","a","s","e","d"," ","f","l","u","i","d"," ","s","i","m",
      "u","l","a","t","i","o","n"," ","i","n"," ","c","o","m","p","u","t",
      "e","r"," ","g","r","a","p","h","i","c","s",":"," ","S","u","r","v",
      "e","y",","," ","r","e","s","e","a","r","c","h"," ","t","r","e","n",
      "d","s",","," ","a","n","d"," ","c","h","a","l","l","e","n","g","e",
      "s","[","J","]","."," ","C","o","m","p","u","t","a","t","i","o","n",
      "a","l"," ","V","i","s","u","a","l"," ","M","e","d","i","a",","," ",
      "2","0","2","4",":"," ","1","-","5","6",".">>

(* the manual override table of main, lines 216-225 *)
Manual ==
    (Str_ShenUnifiedMCT :> Line_ShenUnifiedMCT) @@
    (Str_cross65 :> Line_cross65) @@
    (Str_carreau1972rheological :> Line_carreau1972rheological) @@
    (Str_gingold1977smoothed :> Line_gingold1977smoothed) @@
    (Str_monaghan2005smoothed :> Line_monaghan2005smoothed) @@
    (Str_Mikko96 :> Line_Mikko96) @@
    (Str_wang2024physics :> Line_wang2024physics)

apply_canonical(keys) ==
    [x \in DOMAIN keys |-> IF keys[x] \in DOMAIN Mapping THEN Mapping[keys[x]] ELSE keys[x]]

RECURSIVE UniqLoop(_, _, _)
UniqLoop(s, seen, out) ==
    IF s = <<>> THEN out
    ELSE IF Head(s) \notin seen
         THEN UniqLoop(Tail(s), seen \cup {Head(s)}, Append(out, Head(s)))
         ELSE UniqLoop(Tail(s), seen, out)

(* a variant of uniq that keeps the last occurrence of each element *)
UniqKeepsLast(s) ==
    SelectSeq([x \in DOMAIN s |-> IF \E y \in DOMAIN s : y > x /\ s[y] = s[x] THEN <<>> ELSE s[x]],
              LAMBDA e : e # <<>>)

(* ref_audit.py, lines 27-34 *)
uniq(s) == UniqLoop(s, {}, <<>>)

(* the block appended to bibitems for key k and reference line t *)
Bibitem(k, t) ==
    <<"\n","\t","\\","b","i","b","i","t","e","m","{">> \o k \o <<"}","\n","\t">>
        \o t \o <<"\n">>

(* a variant of Resolution that consults the merged corpus first *)
ResolutionCorpusFirst(k, corpus) ==
    IF HasKey(corpus, k) /\ Lookup(corpus, k) # <<>> THEN "entry"
    ELSE IF k \in DOMAIN Manual THEN "manual"
    ELSE "missing"

(* lines 230-236: which of the three outcomes the key gets *)
Resolution(k, corpus) ==
    IF k \in DOMAIN Manual THEN "manual"
    ELSE IF ~HasKey(corpus, k) \/ Lookup(corpus, k) = <<>> THEN "missing"
    ELSE "entry"

(* line 211 *)
ApplyCanonical ==
    /\ pc = "canonical"
    /\ keys_in_order' = apply_canonical(keys_in_order)
    /\ pc' = "uniq"
    /\ UNCHANGED <<steps, parseVars, dupVars, authVars, texVars,
                   mergeVars, cite_keys, keys_unique, key_idx, bibitems,
                   missing, fmtVars>>

(* line 212 *)
Uniq ==
    /\ pc = "uniq"
    /\ keys_unique' = uniq(keys_in_order)
    /\ pc' = "load"
    /\ UNCHANGED <<steps, parseVars, dupVars, authVars, texVars,
                   mergeVars, cite_keys, keys_in_order, key_idx, bibitems,
                   missing, fmtVars>>

(* the corpora load_merged_bib returns here: any of these entries, in this *)
(* order *)
CorpusEntries ==
    << [key |-> Str_wang2024physics,
        fields |-> (TypeName :> Str_article) @@ (Str_journal :> <<"J">>) @@ (Str_year :> <<"1">>)],
       [key |-> Str_zhang2024multiphase,
        fields |-> (TypeName :> Str_inproceedings) @@ (Str_title :> <<"{","T","}">>)
                   @@ (Str_author :> <<"D","o","e",","," ","J","a","n","e">>)],
       [key |-> Str_k1, fields |-> (TypeName :> Str_misc)] >>

Corpora ==
    { SelectSeq(CorpusEntries, LAMBDA e : e.key \in K)
      : K \in SUBSET {CorpusEntries[x].key : x \in DOMAIN CorpusEntries} }

(* line 214 *)
LoadMergedBib ==
    /\ pc = "load"
    /\ merged' \in Corpora
    /\ pc' = "resolve"
    /\ UNCHANGED <<steps, parseVars, dupVars, authVars, texVars,
                   bib_files, file_idx, bibVars, fmtVars>>

(* one pass of the loop of lines 229-237 *)
ResolveKey ==
    /\ pc = "resolve"
    /\ key_idx < Len(keys_unique)
    /\ LET k == keys_unique[key_idx + 1]
           r == Resolution(k, merged)
       IN  /\ bibitems' = IF r = "manual" THEN Append(bibitems, Bibitem(k, Manual[k]))
                          ELSE IF r = "entry"
                          THEN Append(bibitems, Bibitem(k, format_entry(k, Lookup(merged, k))))
                          ELSE bibitems
           /\ missing' = IF r = "missing" THEN Append(missing, k) ELSE missing
    /\ key_idx' = key_idx + 1
    /\ UNCHANGED <<pc, steps, parseVars, dupVars, authVars, texVars,
                   mergeVars, cite_keys, keys_in_order, keys_unique,
                   fmtVars>>

(* lines 239-248: the output is printed *)
PrintOutput ==
    /\ pc = "resolve"
    /\ key_idx = Len(keys_unique)
    /\ pc' = "printed"
    /\ UNCHANGED <<steps, parseVars, dupVars, authVars, texVars,
                   mergeVars, bibVars, fmtVars>>

(* the keys extract_cite_keys finds in the document *)
MaxCites == 3

CiteKeys ==
    {Str_Wang2024, Str_wang2024physics, Str_Zhang2024MultiphaseVNN, Str_zhang2024multiphase,
     Str_cross65, Str_k1}

InitBib ==
    /\ pc = "canonical"
    /\ cite_keys \in UNION {[1..len -> CiteKeys] : len \in 0..MaxCites}
    /\ keys_in_order = cite_keys
    /\ keys_unique = <<>>
    /\ key_idx = 0
    /\ bibitems = <<>>
    /\ missing = <<>>
    /\ ParseIdle /\ MergeIdle /\ FmtIdle
    /\ DupIdle /\ AuthIdle /\ TexIdle

NextBib ==
    \/ ApplyCanonical
    \/ Uniq
    \/ LoadMergedBib
    \/ ResolveKey
    \/ PrintOutput

SpecBib == InitBib /\ [][NextBib]_vars

----------------------------------------------------------------------------
(* ref_audit.py: the duplicate analysis of main, lines 238-251, and        *)
(* _normalize_title.                                                       *)

Str_doi == <<"d","o","i">>

(* the pattern of line 48 tried at s[p] = "\\": two backslashes, one or    *)
(* more letters, \s*; the index after the match, or p when there is none *)
CommandPairEnd(s, p) ==
    LET a == Past(s, p + 2, Letters)
    IN  IF p + 1 <= Len(s) /\ s[p + 1] = "\\" /\ a > p + 2
        THEN Past(s, a, Whitespace) ELSE p

(* line 48 *)
RECURSIVE SubCommandPairs(_, _)
SubCommandPairs(s, p) ==
    IF p > Len(s) THEN <<>>
    ELSE IF s[p] = "\\" /\ CommandPairEnd(s, p) > p
         THEN <<" ">> \o SubCommandPairs(s, CommandPairEnd(s, p))
         ELSE <<s[p]>> \o SubCommandPairs(s, p + 1)

(* line 49: [^0-9a-zA-Z]+ -> " " *)
RECURSIVE SubNonAlnum(_, _)
SubNonAlnum(s, p) ==
    IF p > Len(s) THEN <<>>
    ELSE IF ~IsAlnum(s[p])
         THEN <<" ">> \o SubNonAlnum(s, Past(s, p, {c \in {s[x] : x \in DOMAIN s} : ~IsAlnum(c)}))
         ELSE <<s[p]>> \o SubNonAlnum(s, p + 1)

(* _normalize_title, lines 44-51 *)
normalize_title(title) ==
    Only({ Only({ Lower(Strip(CollapseSpaces(SubNonAlnum(t2, 1), 1)))
                  : t2 \in {SubCommandPairs(t1, 1)} })
           : t1 \in {ReplaceAll(ReplaceAll(title, <<"{">>, <<" ">>), <<"}">>, <<" ">>)} })

(* a variant of DoiOf that keeps the case of the DOI *)
DoiOfKeepsCase(f) == Strip(Get(f, Str_doi))

(* line 242 *)
DoiOf(f) == Lower(Strip(Get(f, Str_doi)))

(* line 243 *)
TitleOf(f) == Strip(Get(f, Str_title))

(* line 244 *)
YearOf(f) == Strip(Get(f, Str_year))

(* groups.setdefault(g, []).append(key) *)
AppendTo(groups, g, key) ==
    [x \in DOMAIN groups \cup {g} |->
        IF x = g THEN Append(IF g \in DOMAIN groups THEN groups[g] ELSE <<>>, key)
        ELSE groups[x]]

(* the key of line 248 *)
TitleYear(f) == <<normalize_title(TitleOf(f)), YearOf(f)>>

Restrict(groups, D) == [x \in D |-> groups[x]]

(* one pass of the loop of lines 241-248 *)
DupScan ==
    /\ pc = "dupscan"
    /\ dup_idx < Len(merged)
    /\ LET key == merged[dup_idx + 1].key
           f == merged[dup_idx + 1].fields
       IN  /\ doi_groups' = IF DoiOf(f) # <<>> THEN AppendTo(doi_groups, DoiOf(f), key)
                            ELSE doi_groups
           /\ ty_groups' = IF DoiOf(f) = <<>> /\ TitleOf(f) # <<>> /\ YearOf(f) # <<>>
                           THEN AppendTo(ty_groups, TitleYear(f), key)
                           ELSE ty_groups
    /\ dup_idx' = dup_idx + 1
    /\ UNCHANGED <<pc, steps, parseVars, mergeVars, bibVars, fmtVars, dup_doi, dup_ty,
                   authVars, texVars>>

(* lines 250-251 *)
DupFilter ==
    /\ pc = "dupscan"
    /\ dup_idx = Len(merged)
    /\ dup_doi' = Restrict(doi_groups, {d \in DOMAIN doi_groups : Len(doi_groups[d]) > 1})
    /\ dup_ty' = Restrict(ty_groups, {t \in DOMAIN ty_groups :
                                          Len(ty_groups[t]) > 1 /\ t[1] # <<>>})
    /\ pc' = "dups"
    /\ UNCHANGED <<steps, parseVars, mergeVars, bibVars, fmtVars, dup_idx, doi_groups,
                   ty_groups, authVars, texVars>>

(* the merged corpora the analysis is run on *)
MaxDupEntries == 3

DigitSeq == <<"1","2","3","4","5","6","7","8","9">>

DupKey(x) == <<"k", DigitSeq[x]>>

Title_plain == <<"D"," ","l">>

Title_braced == <<"{","d","}"," "," ","L","!">>

Title_command == <<"\\","e","{","D","}"," ","l">>

Title_command_pair == <<"\\","\\","e","{","D","}"," ","l">>

Title_blank == <<"{","}">>

SampleTitles == {Title_plain, Title_braced, Title_command, Title_command_pair, Title_blank}

Doi_upper == <<"1","/","X">>

Doi_lower == <<"1","/","x">>

WithField(f, nm, v) == IF v = None THEN f ELSE SetField(f, nm, v)

DupEntry(d, t, y) ==
    WithField(WithField(WithField((TypeName :> <<"a">>), Str_doi, d), Str_title, t), Str_year, y)

DupFields ==
    {DupEntry(None, t, y) : t \in SampleTitles \cup {None}, y \in {None, <<"1">>}}
        \cup {DupEntry(None, Title_plain, <<"2">>)}
        \cup {DupEntry(d, Title_plain, <<"1">>) : d \in {Doi_upper, Doi_lower, <<>>}}

(* the corpus made of the field maps fs: entry x has the key DupKey(x) *)
DupCorpus(fs) == [x \in DOMAIN fs |-> [key |-> DupKey(x), fields |-> fs[x]]]

InitDup ==
    /\ pc = "dupscan"
    /\ \E len \in 0..MaxDupEntries :
          \E fs \in [1..len -> DupFields] : merged = DupCorpus(fs)
    /\ bib_files = <<>> /\ file_idx = 0
    /\ DupIdle
    /\ ParseIdle /\ BibIdle /\ FmtIdle /\ AuthIdle /\ TexIdle

NextDup ==
    \/ DupScan
    \/ DupFilter

SpecDup == InitDup /\ [][NextDup]_vars

----------------------------------------------------------------------------
(* format_authors run on one author field.                                 *)

(* lines 62-69 *)
FormatAuthors ==
    /\ pc = "authors"
    /\ auth_out' = format_authors(auth_field, auth_max)
    /\ pc' = "authors_done"
    /\ UNCHANGED <<steps, parseVars, mergeVars, bibVars, fmtVars, dupVars, auth_field,
                   auth_max, texVars>>

MaxAuthorList == 4

Str_and == <<" ","a","n","d"," ">>

(* the names an author field is made of: given names first, surname first, *)
(* a single token, surname first with no surname, and nothing *)
SampleNames ==
    { <<"A"," ","B">>,
      <<"D","o","e",","," ","J">>,
      <<"X">>,
      <<","," ","G">>,
      <<>> }

AuthorFields ==
    { Join(names, Str_and)
      : names \in UNION {[1..len -> SampleNames] : len \in 0..MaxAuthorList} }
        \cup { <<"A"," ","B","\n","a","n","d"," ","{","C","}"," ","D">> }

InitAuthors ==
    /\ pc = "authors"
    /\ auth_field \in AuthorFields
    /\ auth_max \in 1..MaxAuthorList
    /\ auth_out = <<>>
    /\ ParseIdle /\ MergeIdle /\ BibIdle /\ FmtIdle /\ DupIdle /\ TexIdle

NextAuthors == FormatAuthors

SpecAuthors == InitAuthors /\ [][NextAuthors]_vars

----------------------------------------------------------------------------
(* strip_tex_braces run on one text.                                       *)

(* lines 11-30 *)
StripTexBraces ==
    /\ pc = "strip"
    /\ tex_out' = strip_tex_braces(tex_in)
    /\ pc' = "stripped"
    /\ UNCHANGED <<steps, parseVars, mergeVars, bibVars, fmtVars, dupVars, authVars, tex_in>>

MaxTexLen == 6

TexChars == {"\\", "&", "e", "{", "}"}

(* \emph{A \& B} *)
Tex_emph_amp == <<"\\","e","m","p","h","{","A"," ","\\","&"," ","B","}">>

FixedTexTexts ==
    { Tex_emph_amp,
      <<"A"," ","\\","&"," ","B"," ","\\","&"," ","C">>,
      <<"\\","'","{","e","}"," ","\\","&"," ","\\","\"","o">>,
      <<"\\","x","[","\\","&","]"," ","c">> }

TexTexts == UNION {[1..len -> TexChars] : len \in 0..MaxTexLen} \cup FixedTexTexts

InitStrip ==
    /\ pc = "strip"
    /\ tex_in \in TexTexts
    /\ tex_out = <<>>
    /\ ParseIdle /\ MergeIdle /\ BibIdle /\ FmtIdle /\ DupIdle /\ AuthIdle

NextStrip == StripTexBraces

SpecStrip == InitStrip /\ [][NextStrip]_vars

----------------------------------------------------------------------------
(* Properties of parse_bibtex_entries.                                     *)

InValue == pc = "fields" /\ pos < n /\ state = "value"

(* C1: in the value of a field, a ',', '}' or ')' read while the depth     *)
(* counter is >= 1 or the quote flag is set is appended to the value       *)
(* buffer and ends neither the field nor the entry; a step of the field    *)
(* loop that stores a field or ends the entry on a character starts at     *)
(* depth 0 with the quote flag clear.                                      *)
C1_NestedDelimitersAreData ==
    [][ /\ (InValue /\ At(pos) \in {",", "}", ")"} /\ (brace_depth >= 1 \/ quote))
           => /\ pc' = "fields"
              /\ state' = "value"
              /\ value' = Append(value, At(pos))
              /\ pos' = pos + 1
              /\ fields' = fields
              /\ name' = name
        /\ (pc = "fields" /\ pos < n
              /\ (fields' # fields \/ pc' = "record" \/ (state = "value" /\ state' = "name")))
           => (brace_depth = 0 /\ ~quote) ]_vars

(* @a{k,t=",}"} is read as the one field t = ,} *)
C1_Witness ==
    /\ pc = "done"
    /\ entries = << [key |-> Str_k,
                     fields |-> (TypeName :> <<"a">>) @@ (<<"t">> :> <<",", "}">>)] >>

(* the position at which the brace opened at s[1] is closed, 0 if never *)
RECURSIVE ClosingIndex(_, _, _)
ClosingIndex(s, p, depth) ==
    IF p > Len(s) THEN 0
    ELSE IF s[p] = "{" THEN ClosingIndex(s, p + 1, depth + 1)
    ELSE IF s[p] = "}" THEN (IF depth = 1 THEN p ELSE ClosingIndex(s, p + 1, depth - 1))
    ELSE ClosingIndex(s, p + 1, depth)

WrappedInMatchingBraces(s) ==
    Len(s) >= 2 /\ s[1] = "{" /\ s[Len(s)] = "}" /\ ClosingIndex(s, 2, 1) = Len(s)

(* every '}' of s closes an earlier '{' and no '{' is left open *)
RECURSIVE BalancedFrom(_, _, _)
BalancedFrom(s, p, depth) ==
    IF p > Len(s) THEN depth = 0
    ELSE IF s[p] = "{" THEN BalancedFrom(s, p + 1, depth + 1)
    ELSE IF s[p] = "}" THEN depth >= 1 /\ BalancedFrom(s, p + 1, depth - 1)
    ELSE BalancedFrom(s, p + 1, depth)

WrappedInQuotes(s) == Len(s) >= 2 /\ s[1] = "\"" /\ s[Len(s)] = "\""

(* the step stores the pending field *)
FlushesField ==
    /\ pc = "fields" /\ pos < n /\ state = "value"
    /\ (state' = "name" \/ pc' = "record")

(* C3: a flushed value loses its outer braces only when its leading '{' is  *)
(* the one closed by its final '}': a trimmed value with balanced braces   *)
(* that is wrapped neither in one matching brace pair nor in double quotes *)
(* (such as {A} and {B}) is stored as written.                             *)
C3_StripsOnlyMatchingBraces ==
    [][ FlushesField =>
          LET t == Strip(value)
          IN  (BalancedFrom(t, 1, 0) /\ ~WrappedInMatchingBraces(t) /\ ~WrappedInQuotes(t))
                  => fields'[Lower(name)] = t ]_vars

(* an entry whose key has no comma, optionally a line break, and one        *)
(* well-formed entry *)
NoCommaEntry == <<"@","a","{","k","}">>

GoodEntries ==
    { [text |-> <<"@","b","{","j",",","u","=","A","}">>,
       entry |-> [key |-> Str_j, fields |-> (TypeName :> <<"b">>) @@ (<<"u">> :> <<"A">>)]],
      [text |-> <<"@","b","{","k",",","u","=","A","}">>,
       entry |-> [key |-> Str_k, fields |-> (TypeName :> <<"b">>) @@ (<<"u">> :> <<"A">>)]] }

(* C4: an entry whose key is not followed by a comma adds nothing to the    *)
(* result, and the well-formed entry after it is returned under its own    *)
(* key with its own type and fields.                                       *)
C4_SkippedEntryIsIsolated ==
    pc = "done" =>
        \A g \in GoodEntries : \A sep \in {<<>>, <<"\n">>} :
            bib_text = NoCommaEntry \o sep \o g.text => entries = <<g.entry>>

NoOpenAfter(p) == \A q \in (p + 1)..(n - 1) : At(q) \notin {"{", "("}

(* C5: when no '{' or '(' follows an '@' before the end of the input, the   *)
(* scan stops there: the next step ends the function with the entries      *)
(* recorded so far, and nothing changes after the function has ended.      *)
C5_MissingDelimiterAborts ==
    [][ /\ (pc = "scan" /\ i < n /\ AtSign # -1 /\ NoOpenAfter(AtSign))
           => (pc' = "done" /\ entries' = entries)
        /\ pc = "done" => UNCHANGED vars ]_vars

C5_Witness ==
    /\ pc = "done"
    /\ i < n /\ AtSign # -1 /\ NoOpenAfter(AtSign)
    /\ entries # <<>>

(* a measure of the work left: the characters not yet passed, and within   *)
(* one position the order name, before_value, value, record *)
Rank ==
    CASE pc = "done" -> 0
      [] pc = "scan" -> 5 * (n + 2 - i)
      [] pc = "record" -> 5 * (n + 1 - pos) + 1
      [] pc = "fields" /\ state = "value" -> 5 * (n + 1 - pos) + 2
      [] pc = "fields" /\ state = "before_value" -> 5 * (n + 1 - pos) + 3
      [] pc = "fields" /\ state = "name" -> 5 * (n + 1 - pos) + 4

(* C6: parse_bibtex_entries terminates on every text: every iteration of   *)
(* its loops lowers the measure, which is never negative (a pass of the    *)
(* outer loop resumes after the '@' it handled, the field loop advances,   *)
(* ends the entry or moves name -> before_value -> value).                 *)
C6_Terminates == [][Rank' < Rank /\ Rank' >= 0]_vars

C6_Witness == pc = "done" /\ i >= n /\ Len(entries) = 2

----------------------------------------------------------------------------
(* Properties of format_entry.                                             *)

Contains(s, sub) ==
    \E p \in 0..(Len(s) - Len(sub)) : SubSeq(s, p + 1, p + Len(sub)) = sub

AllTags == {TagJ, TagC, TagR, TagM, TagD, TagZ}

TypeTable ==
    (Str_article :> TagJ) @@ (Str_inproceedings :> TagC) @@ (Str_conference :> TagC) @@
    (Str_proceedings :> TagC) @@ (Str_techreport :> TagR) @@ (Str_book :> TagM) @@
    (Str_phdthesis :> TagD) @@ (Str_mastersthesis :> TagD)

ClaimedTag(f) ==
    IF Get(f, Str_journal) # <<>> THEN TagJ
    ELSE IF Get(f, Str_booktitle) # <<>> THEN TagC
    ELSE IF TypeName \in DOMAIN f /\ f[TypeName] \in DOMAIN TypeTable THEN TypeTable[f[TypeName]]
    ELSE TagZ

(* C9: the formatted line carries exactly one tag: [J] when the journal     *)
(* field is non-empty, else [C] when the booktitle field is non-empty,     *)
(* else the tag the type table gives the declared type ([Z] for a type     *)
(* that is not in the table).                                              *)
C9_TagByFieldPresenceFirst ==
    pc = "formatted" =>
        /\ Contains(fmt_line, ClaimedTag(fmt_f))
        /\ \A t \in AllTags \ {ClaimedTag(fmt_f)} : ~Contains(fmt_line, t)

(* a declared misc entry with a journal is tagged [J] *)
C9_Witness ==
    /\ pc = "formatted"
    /\ Get(fmt_f, TypeName) = Str_misc
    /\ Get(fmt_f, Str_journal) = <<"J">>
    /\ Contains(fmt_line, TagJ)

(* C10: format_entry leaves out an empty segment in every category: a line  *)
(* without authors starts with the title, and no line holds the            *)
(* punctuation of an empty venue, ". ." or "//.".                          *)
C10_EmptySegmentsOmitted ==
    pc = "formatted" =>
        /\ (EntryAuthors(fmt_f) = <<>> => StartsWith(fmt_line, EntryTitle(fmt_key, fmt_f)))
        /\ ~Contains(fmt_line, <<".", " ", ".">>)
        /\ ~Contains(fmt_line, <<"/", "/", ".">>)

----------------------------------------------------------------------------
(* Properties of the merge loop.                                           *)

KeysOf(m) == {m[x].key : x \in DOMAIN m}

(* the sources read so far: the files up to file_idx that exist *)
SourcesRead == {x \in 1..file_idx : bib_files[x].exists}

SourcesWith(k) == {x \in SourcesRead : HasKey(bib_files[x].entries, k)}

EarliestWith(k) == CHOOSE x \in SourcesWith(k) : \A y \in SourcesWith(k) : x <= y

(* C2: after any number of sources has been merged, the merged corpus holds *)
(* each key once, its key set is the union of the key sets of the sources   *)
(* read, and the entry under every key is the entry of the earliest source  *)
(* that contains the key: no later source overwrites or alters it.          *)
C2_FirstSourceWins ==
    /\ DistinctKeys(merged)
    /\ KeysOf(merged) = UNION {KeysOf(bib_files[x].entries) : x \in SourcesRead}
    /\ \A k \in KeysOf(merged) :
          Lookup(merged, k) = Lookup(bib_files[EarliestWith(k)].entries, k)

(* all files merged, two of them holding the same key with different fields *)
C2_Witness ==
    /\ pc = "merged"
    /\ \E x, y \in SourcesWith(Str_k) :
          /\ x < y
          /\ x = EarliestWith(Str_k)
          /\ Lookup(bib_files[y].entries, Str_k) # Lookup(bib_files[x].entries, Str_k)
          /\ Lookup(merged, Str_k) = Lookup(bib_files[x].entries, Str_k)

----------------------------------------------------------------------------
(* Properties of bibitem_gen.main.                                         *)

KeysDone == SubSeq(keys_unique, 1, key_idx)

InManual(k) == k \in DOMAIN Manual

IsMissing(k) == ~InManual(k) /\ ~HasKey(merged, k)

IsEmitted(k) == ~IsMissing(k)

ExpectedBlock(k) ==
    IF InManual(k) THEN Bibitem(k, Manual[k])
    ELSE Bibitem(k, format_entry(k, Lookup(merged, k)))

(* C7: the keys handled so far each got one outcome: the blocks emitted are *)
(* those of the keys in the manual table (their manual line, whether or not *)
(* the corpus has the key) and of the other keys the corpus contains (their *)
(* formatted entry), in the order of the key sequence; the missing list is  *)
(* the other keys, in the order of the key sequence; and the output is      *)
(* printed only after every key has been handled.                           *)
C7_OneOutcomePerKey ==
    pc \in {"resolve", "printed"} =>
        /\ missing = SelectSeq(KeysDone, IsMissing)
        /\ LET emitted == SelectSeq(KeysDone, IsEmitted)
           IN  bibitems = [x \in DOMAIN emitted |-> ExpectedBlock(emitted[x])]
        /\ pc = "printed" => key_idx = Len(keys_unique)

(* a missing key is followed by a key that both the manual table and the   *)
(* corpus contain *)
C7_Witness ==
    /\ pc = "printed"
    /\ \E x, y \in DOMAIN keys_unique :
          /\ x < y
          /\ IsMissing(keys_unique[x])
          /\ InManual(keys_unique[y])
          /\ HasKey(merged, keys_unique[y])
          /\ bibitems[Len(bibitems)] = Bibitem(keys_unique[y], Manual[keys_unique[y]])
    /\ missing # <<>>

Canonical(k) == IF k \in DOMAIN Mapping THEN Mapping[k] ELSE k

(* the position in the document of the first citation that stands for k *)
FirstCited(k) ==
    CHOOSE x \in DOMAIN cite_keys :
        /\ Canonical(cite_keys[x]) = k
        /\ \A y \in DOMAIN cite_keys : Canonical(cite_keys[y]) = k => x <= y

(* C8: in the key sequence built by apply_canonical and uniq no key occurs *)
(* twice, no alias key occurs, the keys are the canonical forms of the keys *)
(* cited in the document, and they stand in the order of their first        *)
(* citation, an alias counting as a citation of its canonical key.          *)
C8_CanonicalUniqueInOrder ==
    pc \in {"load", "resolve", "printed"} =>
        /\ \A x, y \in DOMAIN keys_unique : x # y => keys_unique[x] # keys_unique[y]
        /\ \A x \in DOMAIN keys_unique : keys_unique[x] \notin DOMAIN Mapping
        /\ {keys_unique[x] : x \in DOMAIN keys_unique}
              = {Canonical(cite_keys[x]) : x \in DOMAIN cite_keys}
        /\ \A x, y \in DOMAIN keys_unique :
              x < y => FirstCited(keys_unique[x]) < FirstCited(keys_unique[y])

(* the document cites an alias, then another key, then the canonical key of *)
(* the alias *)
C8_Witness ==
    /\ pc = "load"
    /\ Len(cite_keys) = 3
    /\ cite_keys[1] \in DOMAIN Mapping
    /\ cite_keys[3] = Mapping[cite_keys[1]]
    /\ cite_keys[2] \notin {cite_keys[1], cite_keys[3]}
    /\ keys_unique = <<cite_keys[3], cite_keys[2]>>

----------------------------------------------------------------------------
(* Properties of the duplicate analysis of ref_audit.main.                 *)

Members(ks) == {ks[x] : x \in DOMAIN ks}

DoiGroupsOf(k) == {d \in DOMAIN dup_doi : k \in Members(dup_doi[d])}

TitleYearGroupsOf(k) == {t \in DOMAIN dup_ty : k \in Members(dup_ty[t])}

InSameGroup(k, j) ==
    \/ DoiGroupsOf(k) \cap DoiGroupsOf(j) # {}
    \/ TitleYearGroupsOf(k) \cap TitleYearGroupsOf(j) # {}

TrimmedLowerDoi(f) == Lower(Strip(Get(f, Str_doi)))

HasDoi(f) == TrimmedLowerDoi(f) # <<>>

SameTitleYear(f, g) ==
    /\ TitleOf(f) # <<>> /\ YearOf(f) # <<>>
    /\ TitleOf(g) # <<>> /\ YearOf(g) # <<>>
    /\ YearOf(f) = YearOf(g)
    /\ normalize_title(TitleOf(f)) = normalize_title(TitleOf(g))
    /\ normalize_title(TitleOf(f)) # <<>>

NoRepeat(ks) == \A x, y \in DOMAIN ks : x # y => ks[x] # ks[y]

(* C11: when the analysis is done every reported group has at least two    *)
(* keys; two entries with a DOI share a group exactly when their trimmed,   *)
(* lowercased DOIs are equal; an entry with a DOI is in no title/year      *)
(* group; two entries without DOI share a group exactly when both have a   *)
(* title and a year, the years are equal and the normalized titles are     *)
(* equal and non-empty; and every key is in at most one reported group.    *)
C11_DuplicateGroups ==
    pc = "dups" =>
        /\ \A d \in DOMAIN dup_doi : Len(dup_doi[d]) >= 2 /\ NoRepeat(dup_doi[d])
        /\ \A t \in DOMAIN dup_ty : Len(dup_ty[t]) >= 2 /\ NoRepeat(dup_ty[t])
        /\ \A x, y \in DOMAIN merged :
              x # y =>
                LET f == merged[x].fields
                    g == merged[y].fields
                    together == InSameGroup(merged[x].key, merged[y].key)
                IN  /\ HasDoi(f) /\ HasDoi(g) =>
                          (together <=> TrimmedLowerDoi(f) = TrimmedLowerDoi(g))
                    /\ ~HasDoi(f) /\ ~HasDoi(g) => (together <=> SameTitleYear(f, g))
                    /\ HasDoi(f) /\ ~HasDoi(g) => ~together
        /\ \A x \in DOMAIN merged :
              /\ HasDoi(merged[x].fields) => TitleYearGroupsOf(merged[x].key) = {}
              /\ Cardinality(DoiGroupsOf(merged[x].key))
                    + Cardinality(TitleYearGroupsOf(merged[x].key)) <= 1

(* two entries whose DOIs differ only in case are reported as one group,   *)
(* and an entry without DOI is in no group *)
C11_Witness ==
    /\ pc = "dups"
    /\ \E x, y, z \in DOMAIN merged :
          /\ x < y
          /\ Get(merged[x].fields, Str_doi) # Get(merged[y].fields, Str_doi)
          /\ \E d \in DOMAIN dup_doi : dup_doi[d] = <<merged[x].key, merged[y].key>>
          /\ ~HasDoi(merged[z].fields)
          /\ DoiGroupsOf(merged[z].key) \cup TitleYearGroupsOf(merged[z].key) = {}

----------------------------------------------------------------------------
(* Properties of format_authors.                                           *)

FormattedNames(field) ==
    LET raw == split_authors(field)
    IN  [x \in DOMAIN raw |-> format_author(raw[x])]

(* the authors left after formatting and dropping the empty ones *)
AuthorsLeft == NonEmpty(FormattedNames(auth_field))

CommaSpace == <<",", " ">>

(* C12: with n authors left after formatting and dropping the empty ones   *)
(* and a maximum m, the result is empty when n = 0, the first m authors    *)
(* joined by ", " followed by ", et al." when n > m, and all n authors     *)
(* joined by ", " when n <= m.                                             *)
C12_AuthorListIsCapped ==
    pc = "authors_done" =>
        IF Len(AuthorsLeft) = 0 THEN auth_out = <<>>
        ELSE IF Len(AuthorsLeft) > auth_max
        THEN auth_out = Join(SubSeq(AuthorsLeft, 1, auth_max), CommaSpace) \o EtAl
        ELSE /\ auth_out = Join(AuthorsLeft, CommaSpace)
             /\ ~EndsWith(auth_out, EtAl)

(* four authors and a maximum of three: three names and ", et al." *)
C12_Witness ==
    /\ pc = "authors_done"
    /\ auth_max = DefaultMaxAuthors
    /\ Len(AuthorsLeft) = 4
    /\ auth_out = Join(SubSeq(AuthorsLeft, 1, 3), CommaSpace) \o EtAl

(* the surname of a name as format_author reads it: the text before the    *)
(* first comma, or the last token of a name without comma *)
Surname(name0) ==
    LET nm == strip_tex_braces(name0)
        toks == Tokens(nm, 1, Whitespace)
    IN  IF IndexOf(nm, ",", 1) # 0 THEN Strip(SubSeq(nm, 1, IndexOf(nm, ",", 1) - 1))
        ELSE IF toks = <<>> THEN <<>>
        ELSE toks[Len(toks)]

HasSurname(name0) == Surname(name0) # <<>>

CappedJoin(authors, m) ==
    IF authors = <<>> THEN <<>>
    ELSE IF Len(authors) > m THEN Join(SubSeq(authors, 1, m), CommaSpace) \o EtAl
    ELSE Join(authors, CommaSpace)

(* the authors of the field whose surname is not empty, formatted *)
AuthorsWithSurname ==
    LET kept == SelectSeq(split_authors(auth_field), HasSurname)
    IN  NonEmpty([x \in DOMAIN kept |-> format_author(kept[x])])

(* C16: an author whose surname is empty contributes nothing: the result   *)
(* is the capped, joined list of the authors that have a surname.          *)
C16_EmptySurnameOmitted ==
    pc = "authors_done" => auth_out = CappedJoin(AuthorsWithSurname, auth_max)

----------------------------------------------------------------------------
(* Properties of the layout format_entry chooses.                          *)

(* C13: the layout of the line follows its tag: a line tagged [C] carries  *)
(* the tag followed by "//" and the venue, a line tagged [J] carries the   *)
(* tag followed by ". " and the venue.                                     *)
C13_LayoutFollowsTag ==
    pc = "formatted" =>
        /\ Contains(fmt_line, TagC) => Contains(fmt_line, TagC \o <<"/", "/">>)
        /\ Contains(fmt_line, TagJ) => Contains(fmt_line, TagJ \o <<".", " ">>)

----------------------------------------------------------------------------
(* Properties of the field scanner of parse_bibtex_entries.                *)

ScannerState ==
    /\ brace_depth >= 0
    /\ quote => brace_depth = 0
    /\ pc = "fields" /\ state = "name" =>
          brace_depth = 0 /\ ~quote /\ name = None /\ value = <<>>

(* a step of the field loop that stores a field value *)
StoresField == pc = "fields" /\ (fields' # fields \/ (name # None /\ name' = None))

(* C14: the depth counter is never negative, the quote flag is set only    *)
(* while the depth is 0, the scanner awaits a field name only with depth   *)
(* 0, the quote flag clear and no field pending, and a field value is      *)
(* stored only by a step taken with depth 0 and the quote flag clear.      *)
C14_ScannerDepthAndQuote ==
    /\ []ScannerState
    /\ [][StoresField => brace_depth = 0 /\ ~quote /\ brace_depth' = 0 /\ ~quote']_vars

(* a closing brace at depth 0 of a parenthesised entry has been read as    *)
(* data, and a field has been stored after a brace group and a quoted      *)
(* string were closed *)
C14_Witness ==
    /\ pc = "done"
    /\ close_ch = ")"
    /\ brace_depth = 0 /\ ~quote
    /\ \E x \in DOMAIN entries :
          \E nm \in DOMAIN entries[x].fields :
              /\ nm # TypeName
              /\ Contains(entries[x].fields[nm], <<"}">>)

----------------------------------------------------------------------------
(* Properties of the entries parse_bibtex_entries records.                 *)

Recorded == [key |-> entry_key, fields |-> fields]

(* what line 169 does to the mapping: the entry replaces the one of the    *)
(* same key where it stands, or is added at the end; nothing else moves *)
RecordsLast ==
    IF entry_key = <<>> THEN entries' = entries
    ELSE /\ Len(entries') = Len(entries) + (IF HasKey(entries, entry_key) THEN 0 ELSE 1)
         /\ \A x \in DOMAIN entries :
               entries'[x] = IF entries[x].key = entry_key THEN Recorded ELSE entries[x]
         /\ ~HasKey(entries, entry_key) => entries'[Len(entries')] = Recorded

(* C18: an entry starts with its type as its only field; recording it      *)
(* replaces, where it stands, the entry recorded earlier under the same    *)
(* key, so that the last entry of a key wins at the position of the first; *)
(* the keys of the mapping are distinct and none is empty.                 *)
C18_LastEntryOfAKeyWins ==
    /\ [](DistinctKeys(entries) /\ \A x \in DOMAIN entries : entries[x].key # <<>>)
    /\ [][/\ pc = "scan" /\ pc' = "fields" => DOMAIN fields' = {TypeName}
          /\ pc = "record" => RecordsLast]_vars
    /\ [](pc = "done" /\ bib_text = RepeatedKeyText =>
            entries = << [key |-> Str_k,
                          fields |-> (TypeName :> <<"c">>) @@ (<<"v">> :> <<"A">>)],
                         [key |-> Str_j,
                          fields |-> (TypeName :> <<"b">>) @@ (<<"u">> :> <<"A">>)] >>)

(* the text with the key k twice has been parsed: k stands first, with the *)
(* type and the field of its last entry *)
C18_Witness ==
    /\ pc = "done"
    /\ bib_text = RepeatedKeyText
    /\ Len(entries) = 2
    /\ entries[1] = [key |-> Str_k, fields |-> (TypeName :> <<"c">>) @@ (<<"v">> :> <<"A">>)]

(* the input has ended inside the entry being read *)
InputEnded == pos >= n /\ n > 0

(* C19: when the input ends inside an entry, the field being read is not   *)
(* stored; the entry is recorded under its key, if not empty, with the     *)
(* fields it has then; the scan then finishes without another entry; and   *)
(* inside an entry, a field is stored only by a comma at depth 0 outside   *)
(* quotes or by the step that closes the entry.                            *)
C19_UnclosedEntryIsRecorded ==
    /\ [][/\ pc = "fields" /\ InputEnded =>
                pc' = "record" /\ fields' = fields /\ entries' = entries
          /\ pc = "record" /\ InputEnded =>
                /\ entry_key # <<>> =>
                      HasKey(entries', entry_key) /\ Lookup(entries', entry_key) = fields
                /\ entry_key = <<>> => entries' = entries
                /\ i' > n
          /\ pc = "scan" /\ InputEnded => pc' = "done" /\ entries' = entries
          /\ pc = "fields" /\ fields' # fields =>
                /\ pos < n /\ brace_depth = 0 /\ ~quote
                /\ \/ pc' = "fields" /\ At(pos) = ","
                   \/ pc' = "record" /\ At(pos) = close_ch]_vars
    /\ [](pc = "done" /\ bib_text = UnclosedQuoteText =>
            entries = << [key |-> Str_k,
                          fields |-> (TypeName :> <<"a">>) @@ (<<"t">> :> <<"A">>)] >>)

(* the text whose quote is never closed has been parsed: the entry k holds *)
(* the field ended by a comma, not the field being read, and the entry j   *)
(* swallowed into that value is not returned *)
C19_Witness ==
    /\ pc = "done"
    /\ bib_text = UnclosedQuoteText
    /\ InputEnded
    /\ name = <<"u">>
    /\ Contains(value, <<"@","b","{","j">>)
    /\ entries = << [key |-> Str_k,
                     fields |-> (TypeName :> <<"a">>) @@ (<<"t">> :> <<"A">>)] >>

----------------------------------------------------------------------------
(* Properties of the title normalization.                                  *)

(* a TeX command token at s[p] = "\\": the backslash, one or more letters  *)
(* and the whitespace after them; the index after it, or p *)
CommandTokenEnd(s, p) ==
    LET a == Past(s, p + 1, Letters)
    IN  IF a > p + 1 THEN Past(s, a, Whitespace) ELSE p

RECURSIVE DropCommandTokens(_, _)
DropCommandTokens(s, p) ==
    IF p > Len(s) THEN <<>>
    ELSE IF s[p] = "\\" /\ CommandTokenEnd(s, p) > p
         THEN <<" ">> \o DropCommandTokens(s, CommandTokenEnd(s, p))
         ELSE <<s[p]>> \o DropCommandTokens(s, p + 1)

(* the words of a title: braces removed, TeX command tokens stripped, only *)
(* letters, digits and single spaces kept, in lower case *)
TitleWords(title) ==
    Only({ Only({ Lower(Strip(CollapseSpaces(SubNonAlnum(t2, 1), 1)))
                  : t2 \in {DropCommandTokens(t1, 1)} })
           : t1 \in {ReplaceAll(ReplaceAll(title, <<"{">>, <<" ">>), <<"}">>, <<" ">>)} })

(* C15: two entries without DOI, with a title and the same year, whose     *)
(* titles have the same words (they differ only by TeX command tokens,     *)
(* braces, punctuation, letter case or whitespace) are reported in one     *)
(* duplicate group.                                                        *)
C15_CommandTokensAreStripped ==
    pc = "dups" =>
        \A x, y \in DOMAIN merged :
            LET f == merged[x].fields
                g == merged[y].fields
            IN  /\ x # y
                /\ ~HasDoi(f) /\ ~HasDoi(g)
                /\ YearOf(f) # <<>> /\ YearOf(f) = YearOf(g)
                /\ TitleWords(TitleOf(f)) # <<>>
                /\ TitleWords(TitleOf(f)) = TitleWords(TitleOf(g))
                => InSameGroup(merged[x].key, merged[y].key)

----------------------------------------------------------------------------
(* Properties of strip_tex_braces.                                         *)

(* the number of occurrences of sub in s *)
Occurrences(s, sub) ==
    Cardinality({p \in 0..(Len(s) - Len(sub)) : SubSeq(s, p + 1, p + Len(sub)) = sub})

(* C17: for an input that does not contain the placeholder text, the       *)
(* output of strip_tex_braces holds as many escaped ampersands as the      *)
(* input.                                                                  *)
C17_EscapedAmpersandsPreserved ==
    pc = "stripped" /\ ~Contains(tex_in, Amp) =>
        Occurrences(tex_out, EscapedAmp) = Occurrences(tex_in, EscapedAmp)

============================================================================
